---------------------------- MODULE Spec2Model ----------------------------
(***************************************************************************)
(* A model of scripts/main.py: the batch job that downloads donations and  *)
(* contacts from Salesforce, joins them, bins donors by giving level and   *)
(* writes one CSV per year plus an all-time CSV.                           *)
(*                                                                         *)
(* Representation.  A Python str whose characters matter (names, account   *)
(* ids, amounts, dates, file labels) is a sequence of character codes, so  *)
(* that split, join, comparison and parsing are computed.  The giving      *)
(* level labels, error names and Slack texts are TLA+ strings.  A          *)
(* DataFrame is the sequence of its rows, each row a record keyed by the   *)
(* column names.                                                           *)
(***************************************************************************)
EXTENDS Integers, Sequences, FiniteSets, TLC

(***************************************************************************)
(* Bounds of the model.                                                    *)
(***************************************************************************)
MaxOpportunities == 2   \* records in the Opportunity response (Spec)
MaxDonations == 3       \* rows of the joined table (SpecReport)
MaxNames == 3           \* contacts in the Contact response (SpecMerger)
MaxMerge == 3           \* records in the Opportunity response (SpecMerger)
MaxRuns == 2            \* consecutive runs of main (Spec)

(***************************************************************************)
(* Characters.                                                             *)
(***************************************************************************)
SPACE == 32             \* ' '
Dash == <<45>>          \* '-'
Dot == <<46>>           \* '.'
CommaSpace == <<44, 32>>                \* ', '
SpaceAndSpace == <<32, 97, 110, 100, 32>>   \* ' and '
Digits == 48..57        \* '0'..'9'

(* Python's str comparison: lexicographic by code point. *)
StrLess(a, b) ==
    \E k \in 1..(Len(b)) :
        /\ \A j \in 1..(k - 1) : j <= Len(a) /\ a[j] = b[j]
        /\ k - 1 <= Len(a)
        /\ (k > Len(a) \/ a[k] < b[k])

StrLeq(a, b) == a = b \/ StrLess(a, b)

(* sep.join(list) *)
RECURSIVE Join(_, _)
Join(sep, list) ==
    IF list = <<>> THEN <<>>
    ELSE IF Len(list) = 1 THEN list[1]
    ELSE list[1] \o sep \o Join(sep, Tail(list))

(* s.split(' '): the tokens between single spaces, empty tokens included. *)
RECURSIVE Split(_)
Split(s) ==
    IF \A k \in 1..Len(s) : s[k] # SPACE THEN <<s>>
    ELSE LET k == CHOOSE k \in 1..Len(s) :
                     s[k] = SPACE /\ \A j \in 1..(k - 1) : s[j] # SPACE
         IN  <<SubSeq(s, 1, k - 1)>> \o Split(SubSeq(s, k + 1, Len(s)))

(* int(digits) for a non-empty run of decimal digits. *)
RECURSIVE DigitsValue(_)
DigitsValue(s) ==
    IF s = <<>> THEN 0
    ELSE 10 * DigitsValue(SubSeq(s, 1, Len(s) - 1)) + (s[Len(s)] - 48)

IsDigits(s) == s # <<>> /\ \A k \in 1..Len(s) : s[k] \in Digits

(* str(n) for n >= 0. *)
RECURSIVE Str(_)
Str(n) == IF n < 10 THEN <<48 + n>> ELSE Str(n \div 10) \o <<48 + (n % 10)>>


(***************************************************************************)
(* Errors.  An exception is a record: its type and, for the refused        *)
(* request, the content list (a sequence of message strings).              *)
(***************************************************************************)
NoError == [type |-> "none", content |-> <<>>]
Error(t) == [type |-> t, content |-> <<>>]
SalesforceRefusedRequest(content) ==
    [type |-> "SalesforceRefusedRequest", content |-> content]

(* The value a function returns or the exception it raises. *)
Returns(v) == [raised |-> NoError, value |-> v]
Raises(e) == [raised |-> e, value |-> <<>>]

(***************************************************************************)
(* create_opportunities_df / create_contacts_df: project every record of   *)
(* the response to the three (two) columns.  A response with no records    *)
(* gives DataFrame([]): no rows and no columns.                            *)
(***************************************************************************)
create_opportunities_df(response) ==
    [k \in 1..Len(response.records) |->
        [AMT |-> response.records[k].Amount,
         DATE |-> response.records[k].CloseDate,
         ACCOUNT |-> response.records[k].AccountId]]

create_contacts_df(response) ==
    [k \in 1..Len(response.records) |->
        [ACCOUNT |-> response.records[k].AccountId,
         NAME |-> response.records[k].Name]]

(***************************************************************************)
(* clean_opportunities_df.                                                 *)
(* pd.to_numeric(errors='coerce') of a decimal text digits[.digits] is its *)
(* value, of any other text NaN; astype(int) truncates the value and       *)
(* raises ValueError on NaN.  pd.to_datetime(format='%Y-%m-%d') raises     *)
(* ValueError unless the text is a calendar date YYYY-MM-DD.               *)
(***************************************************************************)
NaN == "NaN"

to_numeric_astype_int(s) ==
    LET parts == IF \E k \in 1..Len(s) : <<s[k]>> = Dot
                 THEN LET k == CHOOSE k \in 1..Len(s) : <<s[k]>> = Dot
                      IN  <<SubSeq(s, 1, k - 1), SubSeq(s, k + 1, Len(s))>>
                 ELSE <<s>>
    IN  IF \A k \in 1..Len(parts) : IsDigits(parts[k])
        THEN Returns(DigitsValue(parts[1]))     \* truncated toward zero
        ELSE Raises(Error("ValueError"))        \* NaN cannot become int

DaysInMonth(y, m) ==
    IF m \in {4, 6, 9, 11} THEN 30
    ELSE IF m # 2 THEN 31
    ELSE IF (y % 4 = 0 /\ y % 100 # 0) \/ y % 400 = 0 THEN 29
    ELSE 28

to_datetime_year(s) ==
    IF /\ Len(s) = 10
       /\ IsDigits(SubSeq(s, 1, 4)) /\ SubSeq(s, 5, 5) = Dash
       /\ IsDigits(SubSeq(s, 6, 7)) /\ SubSeq(s, 8, 8) = Dash
       /\ IsDigits(SubSeq(s, 9, 10))
       /\ DigitsValue(SubSeq(s, 1, 4)) >= 1
       /\ DigitsValue(SubSeq(s, 6, 7)) \in 1..12
       /\ DigitsValue(SubSeq(s, 9, 10)) \in
            1..DaysInMonth(DigitsValue(SubSeq(s, 1, 4)),
                           DigitsValue(SubSeq(s, 6, 7)))
    THEN Returns(DigitsValue(SubSeq(s, 1, 4)))
    ELSE Raises(Error("ValueError"))

clean_opportunities_df(df) ==
    IF df = <<>> THEN Raises(Error("KeyError"))        \* df['AMT']: no column
    ELSE IF \E k \in 1..Len(df) :
                to_numeric_astype_int(df[k].AMT).raised # NoError
    THEN Raises(Error("ValueError"))
    ELSE IF \E k \in 1..Len(df) : to_datetime_year(df[k].DATE).raised # NoError
    THEN Raises(Error("ValueError"))
    ELSE Returns([k \in 1..Len(df) |->
                    [AMT |-> to_numeric_astype_int(df[k].AMT).value,
                     ACCOUNT |-> df[k].ACCOUNT,
                     YEAR |-> to_datetime_year(df[k].DATE).value]])

(***************************************************************************)
(* build_series_no_serial_comma                                            *)
(***************************************************************************)
build_series_serial_comma(names) ==        \* 'X, Y, and Z'
    LET b == IF Len(names) > 2
             THEN <<Join(CommaSpace, SubSeq(names, 1, Len(names) - 1))
                      \o <<44>>,
                    names[Len(names)]>>
             ELSE names
    IN  Join(SpaceAndSpace, b)

build_series_no_serial_comma(names) ==
    LET b == IF Len(names) > 2
             THEN <<Join(CommaSpace, SubSeq(names, 1, Len(names) - 1)),
                    names[Len(names)]>>
             ELSE names
    IN  Join(SpaceAndSpace, b)

(***************************************************************************)
(* Helpers for groupby.  A group key is a record YEAR, ACCOUNT, NAME (a    *)
(* grouping that does not use a column holds a fixed value there); groupby *)
(* sorts the distinct keys ascending, column by column.                    *)
(***************************************************************************)
KeyLess(a, b) ==
    \/ a.YEAR < b.YEAR
    \/ /\ a.YEAR = b.YEAR
       /\ \/ StrLess(a.ACCOUNT, b.ACCOUNT)
          \/ a.ACCOUNT = b.ACCOUNT /\ StrLess(a.NAME, b.NAME)

RECURSIVE SortedKeys(_)
SortedKeys(keys) ==
    IF keys = {} THEN <<>>
    ELSE LET m == CHOOSE m \in keys : \A k \in keys : ~KeyLess(k, m)
         IN  <<m>> \o SortedKeys(keys \ {m})

RECURSIVE SumAMT(_)
SumAMT(df) == IF df = <<>> THEN 0 ELSE df[1].AMT + SumAMT(Tail(df))

(***************************************************************************)
(* clean_contacts_df: one row per ACCOUNT, in ascending ACCOUNT order,     *)
(* NAME the series of that account's names in their original order.        *)
(* df.groupby(['ACCOUNT']) raises KeyError on the column-less DataFrame.   *)
(***************************************************************************)
clean_contacts_df(df) ==
    IF df = <<>> THEN Raises(Error("KeyError"))
    ELSE LET keys == SortedKeys({[YEAR |-> 0, ACCOUNT |-> df[k].ACCOUNT,
                                  NAME |-> <<>>] : k \in 1..Len(df)})
             NamesOf(a) == LET Same(r) == r.ACCOUNT = a
                               rows == SelectSeq(df, Same)
                           IN  [k \in 1..Len(rows) |-> rows[k].NAME]
         IN  Returns([k \in 1..Len(keys) |->
                        [ACCOUNT |-> keys[k].ACCOUNT,
                         NAME |-> build_series_no_serial_comma(
                                      NamesOf(keys[k].ACCOUNT))]])

(***************************************************************************)
(* merge_and_slice: pd.merge(..., on='ACCOUNT') is an inner join that      *)
(* keeps the order of the left rows, one output row per matching pair;     *)
(* then the rows with YEAR <= date.today().year are kept.                  *)
(***************************************************************************)
RECURSIVE merge(_, _)
merge(opportunities_df, contacts_df) ==
    IF opportunities_df = <<>> THEN <<>>
    ELSE LET o == opportunities_df[1]
             Match(c) == c.ACCOUNT = o.ACCOUNT
             matches == SelectSeq(contacts_df, Match)
         IN  [k \in 1..Len(matches) |->
                [AMT |-> o.AMT, ACCOUNT |-> o.ACCOUNT, YEAR |-> o.YEAR,
                 NAME |-> matches[k].NAME]]
             \o merge(Tail(opportunities_df), contacts_df)

merge_and_slice_before_today(opportunities_df, contacts_df, today_year) ==
    LET merged_df == merge(opportunities_df, contacts_df)
        Past(r) == r.YEAR < today_year       \* the current year is dropped too
    IN  SelectSeq(merged_df, Past)

merge_and_slice(opportunities_df, contacts_df, today_year) ==
    LET merged_df == merge(opportunities_df, contacts_df)
        NotFuture(r) == r.YEAR <= today_year
    IN  SelectSeq(merged_df, NotFuture)

(***************************************************************************)
(* bin_donors_by_giving_level.                                             *)
(* bins holds the finite edges; the last edge of the source, np.inf, is    *)
(* the absence of an upper test on the last band.  pd.cut(right=False)     *)
(* gives the label of the band with edge <= AMT < next edge, NaN if none.  *)
(***************************************************************************)
bins == <<0, 50, 100, 250, 500, 1000, 2500>>

labels == <<"<strong>Friend\n$1-$49</strong>",
            "<strong>Supporter\n$50-$99</strong>",
            "<strong>Patron\n$100-$249</strong>",
            "<strong>Champion Level\n$250-$499</strong>",
            "<strong>Ambassador\n$500-$999</strong>",
            "<strong>Editor's Circle\n$1,000-$2,499</strong>",
            "<strong>Publisher's Circle\n$2,500-$4,999</strong>">>

(* pd.cut with its default right=True: bands (edge, next edge]. *)
cut_right_closed(amt) ==
    LET InBin(k) == bins[k] < amt /\ (k = Len(bins) \/ amt <= bins[k + 1])
    IN  IF \E k \in 1..Len(bins) : InBin(k)
        THEN labels[CHOOSE k \in 1..Len(bins) : InBin(k)]
        ELSE NaN

cut(amt) ==
    LET InBin(k) == bins[k] <= amt /\ (k = Len(bins) \/ amt < bins[k + 1])
    IN  IF \E k \in 1..Len(bins) : InBin(k)
        THEN labels[CHOOSE k \in 1..Len(bins) : InBin(k)]
        ELSE NaN

(* The position of a label among the ordered categories; 0 for NaN. *)
LevelCode(level) ==
    IF \E k \in 1..Len(labels) : labels[k] = level
    THEN CHOOSE k \in 1..Len(labels) : labels[k] = level
    ELSE 0

LastName(name) == Split(name)[Len(Split(name))]

(* sort_values(['LEVEL', 'LASTNAME'], ascending=[False, True]): the row a  *)
(* comes strictly before the row b.  NaN levels sort last.                 *)
SortsBefore_by_name(a, b) ==      \* sorted by NAME, not LASTNAME
    \/ LevelCode(a.LEVEL) > LevelCode(b.LEVEL)
    \/ /\ LevelCode(a.LEVEL) = LevelCode(b.LEVEL)
       /\ StrLess(a.NAME, b.NAME)

SortsBefore(a, b) ==
    \/ LevelCode(a.LEVEL) > LevelCode(b.LEVEL)
    \/ /\ LevelCode(a.LEVEL) = LevelCode(b.LEVEL)
       /\ StrLess(a.LASTNAME, b.LASTNAME)

(* The sort is stable: a row is placed after the rows it does not precede. *)
RECURSIVE sort_values(_)
sort_values(df) ==
    IF df = <<>> THEN <<>>
    ELSE LET sorted == sort_values(SubSeq(df, 1, Len(df) - 1))
             r == df[Len(df)]
             n == Cardinality({k \in 1..Len(sorted) : ~SortsBefore(r, sorted[k])})
         IN  SubSeq(sorted, 1, n) \o <<r>> \o SubSeq(sorted, n + 1, Len(sorted))

bin_donors_by_giving_level(df) ==
    sort_values([k \in 1..Len(df) |->
        [AMT |-> df[k].AMT, ACCOUNT |-> df[k].ACCOUNT, YEAR |-> df[k].YEAR,
         NAME |-> df[k].NAME,
         LEVEL |-> cut(df[k].AMT),
         LASTNAME |-> LastName(df[k].NAME)]])

(***************************************************************************)
(* write_levels_csv: the rows handed to the csv writer.  A row is the      *)
(* one-element list [donor.LEVEL] or [donor.NAME]; the field records the   *)
(* column it was read from and its value.                                  *)
(***************************************************************************)
LevelRow(level) == <<[col |-> "LEVEL", val |-> level]>>
NameRow(name) == <<[col |-> "NAME", val |-> name]>>

(* current_level != donor.LEVEL; NaN differs from everything, itself too. *)
LevelDiffers(current_level, level) == level = NaN \/ current_level # level

RECURSIVE writerows(_, _)
writerows(df, current_level) ==
    IF df = <<>> THEN <<>>
    ELSE IF LevelDiffers(current_level, df[1].LEVEL)
    THEN <<LevelRow(df[1].LEVEL), NameRow(df[1].NAME)>>
         \o writerows(Tail(df), df[1].LEVEL)
    ELSE <<NameRow(df[1].NAME)>> \o writerows(Tail(df), current_level)

RECURSIVE write_levels_csv_header_each(_)
write_levels_csv_header_each(df) ==   \* current_level is never updated
    IF df = <<>> THEN <<>>
    ELSE <<LevelRow(df[1].LEVEL), NameRow(df[1].NAME)>>
         \o write_levels_csv_header_each(Tail(df))

write_levels_csv(df) == writerows(df, "")

(* '{0}/data/{1}.csv'.format(PROJECT_DIR, year): the file is named by year. *)
ALL_TIME_DONATIONS ==     \* 'all-time-donations'
    <<97, 108, 108, 45, 116, 105, 109, 101, 45,
      100, 111, 110, 97, 116, 105, 111, 110, 115>>

(***************************************************************************)
(* get_donations_by_year / get_donations_by_donor                          *)
(***************************************************************************)
get_donations_by_year(df) ==
    LET keys == SortedKeys({[YEAR |-> df[k].YEAR, ACCOUNT |-> df[k].ACCOUNT,
                             NAME |-> df[k].NAME] : k \in 1..Len(df)})
        Group(key) == LET Same(r) == /\ r.YEAR = key.YEAR
                                     /\ r.ACCOUNT = key.ACCOUNT
                                     /\ r.NAME = key.NAME
                      IN  SelectSeq(df, Same)
    IN  [k \in 1..Len(keys) |->
            [YEAR |-> keys[k].YEAR, ACCOUNT |-> keys[k].ACCOUNT,
             NAME |-> keys[k].NAME, AMT |-> SumAMT(Group(keys[k]))]]

ALL_TIME == "all-time"

get_donations_by_donor_per_year(df) ==    \* YEAR left in the group key
    LET by_year == get_donations_by_year(df)
    IN  [k \in 1..Len(by_year) |->
            [ACCOUNT |-> by_year[k].ACCOUNT, NAME |-> by_year[k].NAME,
             AMT |-> by_year[k].AMT, YEAR |-> ALL_TIME]]

get_donations_by_donor(df) ==
    LET keys == SortedKeys({[YEAR |-> 0, ACCOUNT |-> df[k].ACCOUNT,
                             NAME |-> df[k].NAME] : k \in 1..Len(df)})
        Group(key) == LET Same(r) == /\ r.ACCOUNT = key.ACCOUNT
                                     /\ r.NAME = key.NAME
                      IN  SelectSeq(df, Same)
    IN  [k \in 1..Len(keys) |->
            [ACCOUNT |-> keys[k].ACCOUNT, NAME |-> keys[k].NAME,
             AMT |-> SumAMT(Group(keys[k])), YEAR |-> ALL_TIME]]

(***************************************************************************)
(* process_annual_donations: df['YEAR'].min() and .max().                  *)
(***************************************************************************)
YearMin(df) == CHOOSE y \in {df[k].YEAR : k \in 1..Len(df)} :
                   \A k \in 1..Len(df) : y <= df[k].YEAR
YearMax(df) == CHOOSE y \in {df[k].YEAR : k \in 1..Len(df)} :
                   \A k \in 1..Len(df) : y >= df[k].YEAR

(* range(df['YEAR'].min(), df['YEAR'].max() + 1) *)
YearRange_exclusive(df) == [start |-> YearMin(df), stop |-> YearMax(df)]
YearRange(df) == [start |-> YearMin(df), stop |-> YearMax(df) + 1]

(***************************************************************************)
(* The state of a run of main.                                             *)
(***************************************************************************)
VARIABLES
    pc,                 \* position in main
    run,                \* number of the run of main in progress
    today,              \* date.today().year
    sf,                 \* the records the two SOQL queries select
    data_dir,           \* whether PROJECT_DIR/data exists
    files,              \* the files of PROJECT_DIR/data: name -> rows
    queries,            \* the queries issued with sf.query_all, in order
    caught,             \* the SalesforceRefusedRequest being handled
    todo,               \* the entries of e.content not yet posted
    slack_posts,        \* the messages posted to Slack, in order
    opportunities,      \* response of the Opportunity query
    contacts,           \* response of the Contact query
    opportunities_df,   \* cleaned_opportunities_df
    contacts_df,        \* cleaned_contacts_df
    donations_df,       \* the joined donations
    annual_df,          \* df of process_annual_donations (sorted in place)
    year,               \* next value of the loop variable year
    year_stop,          \* end of range(min, max + 1)
    writes,             \* the calls of write_levels_csv: year label and df
    raised,             \* the exception that ended the run
    series,             \* a call of build_series_no_serial_comma
    prev                \* files and writes when the previous run ended

vars == <<pc, run, today, sf, data_dir, files, queries, caught, todo,
          slack_posts, opportunities, contacts, opportunities_df,
          contacts_df, donations_df, annual_df, year, year_stop, writes,
          raised, series, prev>>

env == <<today, sf, run, prev, series>>
query_vars == <<queries, caught, todo, slack_posts, opportunities, contacts>>
frame_vars == <<opportunities_df, contacts_df, donations_df>>
report_vars == <<annual_df, year, year_stop, writes, data_dir, files>>

SLACK_CHANNEL == "ok_watch_salesforce"
donors_opportunities_query == "donors_opportunities_query"
donors_contacts_query == "donors_contacts_query"

(***************************************************************************)
(* get_salesforce_connection: the login succeeds or raises.                *)
(***************************************************************************)
Connect ==
    /\ pc = "connect"
    /\ \/ pc' = "query_opportunities" /\ raised' = raised
       \/ pc' = "failed" /\ raised' = Error("SalesforceAuthenticationFailed")
    /\ UNCHANGED <<env, query_vars, frame_vars, report_vars>>

(***************************************************************************)
(* query_salesforce: sf.query_all(query) returns the response, raises the  *)
(* refused request with some content, or raises another error, which is    *)
(* not caught.                                                             *)
(***************************************************************************)
RefusedContents ==
    {<<>>, <<"Password expired">>, <<"Password expired", "Call SetPassword">>}

Response(query) ==
    [records |-> IF query = donors_opportunities_query
                 THEN sf.opportunities ELSE sf.contacts]

QueryAll(at, query, next) ==
    /\ pc = at
    /\ queries' = Append(queries, query)
    /\ \/ /\ pc' = next
          /\ IF query = donors_opportunities_query
             THEN opportunities' = Response(query) /\ contacts' = contacts
             ELSE contacts' = Response(query) /\ opportunities' = opportunities
          /\ UNCHANGED <<caught, todo, raised>>
       \/ \E content \in RefusedContents :
          /\ pc' = "notify"
          /\ caught' = SalesforceRefusedRequest(content)
          /\ todo' = content
          /\ UNCHANGED <<opportunities, contacts, raised>>
       \/ /\ pc' = "failed"
          /\ raised' = Error("SalesforceError")
          /\ UNCHANGED <<opportunities, contacts, caught, todo>>
    /\ UNCHANGED <<env, slack_posts, frame_vars, report_vars>>

QueryOpportunities ==
    QueryAll("query_opportunities", donors_opportunities_query, "query_contacts")

QueryContacts ==
    QueryAll("query_contacts", donors_contacts_query, "shape")

(* One turn of the loop over e.content: the post succeeds or raises. *)
PostText(message) == "ERROR: " \o message \o ". @channel"

PostMessage ==
    /\ pc = "notify" /\ todo # <<>>
    /\ \/ /\ slack_posts' = Append(slack_posts,
                [channel |-> SLACK_CHANNEL, text |-> PostText(Head(todo))])
          /\ todo' = Tail(todo)
          /\ UNCHANGED <<pc, raised>>
       \/ /\ pc' = "failed"
          /\ raised' = Error("SlackError")
          /\ UNCHANGED <<slack_posts, todo>>
    /\ UNCHANGED <<env, queries, caught, opportunities, contacts,
                   frame_vars, report_vars>>

(* raise e *)
Reraise_suppressed ==               \* the handler ends without raise e
    /\ pc = "notify" /\ todo = <<>>
    /\ pc' = IF Len(queries) = 1 THEN "query_contacts" ELSE "shape"
    /\ raised' = raised
    /\ UNCHANGED <<env, query_vars, frame_vars, report_vars>>

Reraise ==
    /\ pc = "notify" /\ todo = <<>>
    /\ pc' = "failed"
    /\ raised' = caught
    /\ UNCHANGED <<env, query_vars, frame_vars, report_vars>>

(***************************************************************************)
(* The rest of get_donations: create and clean both DataFrames, merge.     *)
(***************************************************************************)
CleanAndMerge ==
    /\ pc = "shape"
    /\ LET o == clean_opportunities_df(create_opportunities_df(opportunities))
           c == clean_contacts_df(create_contacts_df(contacts))
       IN  IF o.raised # NoError
           THEN /\ pc' = "failed" /\ raised' = o.raised
                /\ UNCHANGED frame_vars
           ELSE IF c.raised # NoError
           THEN /\ pc' = "failed" /\ raised' = c.raised
                /\ opportunities_df' = o.value
                /\ UNCHANGED <<contacts_df, donations_df>>
           ELSE /\ pc' = "all_time" /\ raised' = raised
                /\ opportunities_df' = o.value
                /\ contacts_df' = c.value
                /\ donations_df' = merge_and_slice(o.value, c.value, today)
    /\ UNCHANGED <<env, query_vars, report_vars>>

(***************************************************************************)
(* The file effects of write_levels_csv(df, label): the directory is made  *)
(* if absent, the file is opened with 'w' (truncated) and the rows are     *)
(* written.  Making the directory or opening may raise OSError, leaving    *)
(* the files as they were; a write may raise after some rows.              *)
(***************************************************************************)
Put_append(fs, name, rows) ==      \* the file opened with 'a'
    (name :> (IF name \in DOMAIN fs THEN fs[name] ELSE <<>>) \o rows) @@ fs

Put(fs, name, rows) == (name :> rows) @@ fs

WriteFile(df, label, next) ==
    LET rows == write_levels_csv(df)
    IN  /\ writes' = Append(writes, [year |-> label, df |-> df])
        /\ \/ /\ data_dir' = TRUE
              /\ files' = Put(files, label, rows)
              /\ pc' = next /\ raised' = raised
           \/ /\ UNCHANGED <<data_dir, files>>
              /\ pc' = "failed" /\ raised' = Error("OSError")
           \/ \E k \in 0..(Len(rows) - 1) :
              /\ data_dir' = TRUE
              /\ files' = Put(files, label, SubSeq(rows, 1, k))
              /\ pc' = "failed" /\ raised' = Error("OSError")

(* main: the all-time report. *)
WriteAllTime ==
    /\ pc = "all_time"
    /\ WriteFile(bin_donors_by_giving_level(get_donations_by_donor(donations_df)),
                 ALL_TIME_DONATIONS, "annual")
    /\ UNCHANGED <<env, query_vars, frame_vars, annual_df, year, year_stop>>

(* main: get_donations_by_year, and the range of process_annual_donations; *)
(* min() of an empty column is nan, which range() refuses.                 *)
StartAnnual ==
    /\ pc = "annual"
    /\ annual_df' = get_donations_by_year(donations_df)
    /\ IF annual_df' = <<>>
       THEN /\ pc' = "failed" /\ raised' = Error("TypeError")
            /\ UNCHANGED <<year, year_stop>>
       ELSE /\ pc' = "year" /\ raised' = raised
            /\ year' = YearRange(annual_df').start
            /\ year_stop' = YearRange(annual_df').stop
    /\ UNCHANGED <<env, query_vars, frame_vars, writes, data_dir, files>>

(* One turn of the loop of process_annual_donations. *)
AnnualYear ==
    /\ pc = "year"
    /\ annual_df' = bin_donors_by_giving_level(annual_df)
    /\ year' = year + 1
    /\ LET ThisYear(r) == r.YEAR = year
       IN  WriteFile(SelectSeq(annual_df', ThisYear), Str(year),
                     IF year + 1 < year_stop THEN "year" ELSE "done")
    /\ UNCHANGED <<env, query_vars, frame_vars, year_stop>>

(***************************************************************************)
(* The job is run again: the same records, the same calendar year.         *)
(***************************************************************************)
Fresh ==
    /\ queries = <<>> /\ caught = NoError /\ todo = <<>> /\ slack_posts = <<>>
    /\ opportunities = [records |-> <<>>] /\ contacts = [records |-> <<>>]
    /\ opportunities_df = <<>> /\ contacts_df = <<>> /\ donations_df = <<>>
    /\ annual_df = <<>> /\ year = 0 /\ year_stop = 0
    /\ writes = <<>> /\ raised = NoError

RunAgain ==
    /\ pc = "done" /\ run < MaxRuns
    /\ pc' = "connect"
    /\ run' = run + 1
    /\ prev' = [files |-> files, writes |-> writes]
    /\ queries' = <<>> /\ caught' = NoError /\ todo' = <<>>
    /\ slack_posts' = <<>>
    /\ opportunities' = [records |-> <<>>] /\ contacts' = [records |-> <<>>]
    /\ opportunities_df' = <<>> /\ contacts_df' = <<>> /\ donations_df' = <<>>
    /\ annual_df' = <<>> /\ year' = 0 /\ year_stop' = 0
    /\ writes' = <<>> /\ raised' = NoError
    /\ UNCHANGED <<today, sf, series, data_dir, files>>

(* A direct call of build_series_no_serial_comma. *)
BuildSeries ==
    /\ ~series.called
    /\ series' = [names |-> series.names,
                  out |-> build_series_no_serial_comma(series.names),
                  called |-> TRUE]
    /\ UNCHANGED <<pc, run, today, sf, prev, raised, query_vars, frame_vars,
                   report_vars>>

(***************************************************************************)
(* The inputs.                                                             *)
(***************************************************************************)
SeqsUpTo(S, n) == UNION {[1..m -> S] : m \in 0..n}

Account1 == <<49>>                           \* '1'
Account2 == <<50>>                           \* '2'
Account3 == <<51>>                           \* '3'
AlZed == <<65, 108, 32, 90, 101, 100>>       \* 'Al Zed'
BoAbe == <<66, 111, 32, 65, 98, 101>>        \* 'Bo Abe'
Cy == <<67, 121>>                            \* 'Cy'
DiAbe == <<68, 105, 32, 65, 98, 101>>        \* 'Di Abe'

Amount60 == <<54, 48, 46, 53>>               \* '60.5'
Amount2500 == <<50, 53, 48, 48>>             \* '2500'
AmountX == <<120>>                           \* 'x', not a number
Date2014 == <<50, 48, 49, 52, 45, 48, 54, 45, 48, 49>>     \* '2014-06-01'
Date2016 == <<50, 48, 49, 54, 45, 48, 50, 45, 50, 57>>     \* '2016-02-29'
Date2017 == <<50, 48, 49, 55, 45, 48, 49, 45, 51, 49>>     \* '2017-01-31'
DateBad == <<50, 48, 49, 54, 45, 49, 51, 45, 48, 49>>      \* '2016-13-01'

Contact(account, name) == [AccountId |-> account, Name |-> name]

(* Contact responses: none, one donor, two donors, a household of three. *)
ContactResponses ==
    {<<>>,
     <<Contact(Account1, AlZed)>>,
     <<Contact(Account2, BoAbe), Contact(Account1, AlZed)>>,
     <<Contact(Account1, BoAbe), Contact(Account2, AlZed),
       Contact(Account1, Cy), Contact(Account1, DiAbe)>>}

Opportunity(amount, date, account) ==
    [Amount |-> amount, CloseDate |-> date, AccountId |-> account]

OpportunityRecords(amounts, dates, accounts) ==
    [Amount : amounts, CloseDate : dates, AccountId : accounts]

(* Donations of two accounts over three years, one pledged for 2017, one   *)
(* with an amount that is no number and one with a date that is no date.   *)
SomeOpportunities ==
    {Opportunity(Amount60, Date2014, Account1),
     Opportunity(Amount60, Date2016, Account1),
     Opportunity(Amount2500, Date2016, Account2),
     Opportunity(Amount60, Date2014, Account2),
     Opportunity(Amount60, Date2017, Account1),
     Opportunity(AmountX, Date2016, Account1),
     Opportunity(Amount60, DateBad, Account2)}

StaleRows == <<NameRow(Cy)>>
Notes == <<110, 111, 116, 101, 115>>         \* 'notes', a file of no report

(* States of PROJECT_DIR/data before the first run. *)
DataDirs ==
    {[data_dir |-> FALSE, files |-> <<>>],
     [data_dir |-> TRUE, files |-> (ALL_TIME_DONATIONS :> StaleRows)],
     [data_dir |-> TRUE,
      files |-> (Str(2015) :> StaleRows) @@ (Notes :> StaleRows)]}

NoSeries == [names |-> <<>>, out |-> <<>>, called |-> TRUE]
NoPrev == [files |-> <<>>, writes |-> <<>>]

(***************************************************************************)
(* Spec: runs of main from the start, one after the other.                 *)
(***************************************************************************)
Init ==
    /\ pc = "connect" /\ run = 1 /\ today = 2016
    /\ sf \in [opportunities : SeqsUpTo(SomeOpportunities, MaxOpportunities),
               contacts : ContactResponses]
    /\ \E d \in DataDirs : data_dir = d.data_dir /\ files = d.files
    /\ Fresh
    /\ series = NoSeries /\ prev = NoPrev

Next ==
    \/ Connect
    \/ QueryOpportunities
    \/ QueryContacts
    \/ PostMessage
    \/ Reraise
    \/ CleanAndMerge
    \/ WriteAllTime
    \/ StartAnnual
    \/ AnnualYear
    \/ RunAgain

Spec == Init /\ [][Next]_vars

(***************************************************************************)
(* SpecMerger: the Merger on drawn responses (clean_opportunities_df,      *)
(* clean_contacts_df, merge_and_slice) and build_series_no_serial_comma on *)
(* drawn lists of names.                                                   *)
(***************************************************************************)
InitMerger ==
    /\ pc = "shape" /\ run = 1 /\ today = 2016
    /\ \/ /\ series \in [names : SeqsUpTo({AlZed, BoAbe, Cy}, MaxNames),
                         out : {<<>>}, called : {FALSE}]
          /\ sf = [opportunities |-> <<>>, contacts |-> <<>>]
       \/ /\ series = NoSeries
          /\ sf \in [opportunities :
                        {<<[Amount |-> Amount60, CloseDate |-> Date2016,
                            AccountId |-> Account1]>>},
                     contacts :
                        SeqsUpTo([AccountId : {Account1, Account2},
                                  Name : {AlZed, BoAbe}], MaxNames)]
       \/ /\ series = NoSeries
          /\ sf \in [opportunities :
                        SeqsUpTo(OpportunityRecords({Amount60, Amount2500},
                                                    {Date2014, Date2016,
                                                     Date2017},
                                                    {Account1, Account3}),
                                 MaxMerge),
                     contacts : ContactResponses]
    /\ data_dir = FALSE /\ files = <<>>
    /\ queries = <<donors_opportunities_query, donors_contacts_query>>
    /\ caught = NoError /\ todo = <<>> /\ slack_posts = <<>>
    /\ opportunities = [records |-> sf.opportunities]
    /\ contacts = [records |-> sf.contacts]
    /\ opportunities_df = <<>> /\ contacts_df = <<>> /\ donations_df = <<>>
    /\ annual_df = <<>> /\ year = 0 /\ year_stop = 0
    /\ writes = <<>> /\ raised = NoError
    /\ prev = NoPrev

NextMerger == CleanAndMerge \/ BuildSeries

SpecMerger == InitMerger /\ [][NextMerger]_vars

(***************************************************************************)
(* SpecReport: the Reporter on drawn tables of joined donations.  Every    *)
(* account has one donor name, as after clean_contacts_df.                 *)
(***************************************************************************)
DonorName(account) ==
    IF account = Account1 THEN AlZed
    ELSE IF account = Account2 THEN BoAbe
    ELSE build_series_no_serial_comma(<<Cy, DiAbe>>)

Joined(amt, y, account) ==
    [AMT |-> amt, ACCOUNT |-> account, YEAR |-> y, NAME |-> DonorName(account)]

BoundaryAmounts ==
    {0, 49, 50, 99, 100, 249, 250, 499, 500, 999, 1000, 2499, 2500, 5000}

ReportInputs ==
    {<<Joined(amt, 2016, Account1)>> : amt \in BoundaryAmounts}
    \cup SeqsUpTo(UNION {{Joined(30, 2014, a), Joined(30, 2016, a),
                           Joined(60, 2016, a)} :
                              a \in {Account1, Account2, Account3}},
                  MaxDonations)

InitReport ==
    /\ pc = "all_time" /\ run = 1 /\ today = 2016
    /\ donations_df \in ReportInputs
    /\ sf = [opportunities |-> <<>>, contacts |-> <<>>]
    /\ data_dir = FALSE /\ files = <<>>
    /\ queries = <<donors_opportunities_query, donors_contacts_query>>
    /\ caught = NoError /\ todo = <<>> /\ slack_posts = <<>>
    /\ opportunities = [records |-> <<>>] /\ contacts = [records |-> <<>>]
    /\ opportunities_df = <<>> /\ contacts_df = <<>>
    /\ annual_df = <<>> /\ year = 0 /\ year_stop = 0
    /\ writes = <<>> /\ raised = NoError
    /\ series = NoSeries /\ prev = NoPrev

NextReport == WriteAllTime \/ StartAnnual \/ AnnualYear

SpecReport == InitReport /\ [][NextReport]_vars

(***************************************************************************)
(* Definitions shared by the properties below.                             *)
(***************************************************************************)
(* The giving levels in band order: lower edge (inclusive) and label. *)
GivingLevels ==
    <<[lo |-> 0, label |-> "<strong>Friend\n$1-$49</strong>"],
      [lo |-> 50, label |-> "<strong>Supporter\n$50-$99</strong>"],
      [lo |-> 100, label |-> "<strong>Patron\n$100-$249</strong>"],
      [lo |-> 250, label |-> "<strong>Champion Level\n$250-$499</strong>"],
      [lo |-> 500, label |-> "<strong>Ambassador\n$500-$999</strong>"],
      [lo |-> 1000, label |-> "<strong>Editor's Circle\n$1,000-$2,499</strong>"],
      [lo |-> 2500,
       label |-> "<strong>Publisher's Circle\n$2,500-$4,999</strong>"]>>

(* The bands [lo, next lo) that contain an amount; the last has no end. *)
BandsOf(amt) ==
    {k \in 1..Len(GivingLevels) :
        /\ GivingLevels[k].lo <= amt
        /\ k < Len(GivingLevels) => amt < GivingLevels[k + 1].lo}

(* The tiers (positions in band order) a label names. *)
TiersOf(level) == {k \in 1..Len(GivingLevels) : GivingLevels[k].label = level}
Tier(level) == CHOOSE k \in TiersOf(level) : TRUE

(* The final space-separated token of a display name. *)
FinalToken(name) ==
    LET spaces == {k \in 1..Len(name) : name[k] = 32}
    IN  IF spaces = {} THEN name
        ELSE SubSeq(name, (CHOOSE k \in spaces : \A j \in spaces : j <= k) + 1,
                    Len(name))

(* The columns an aggregate has before it is binned. *)
Aggregate(r) ==
    [AMT |-> r.AMT, ACCOUNT |-> r.ACCOUNT, YEAR |-> r.YEAR, NAME |-> r.NAME]

Count(seq, x) == Cardinality({k \in 1..Len(seq) : seq[k] = x})

(* b holds the rows of a, each as often as a does, in some order. *)
IsPermutation(a, b) ==
    /\ Len(a) = Len(b)
    /\ \A k \in 1..Len(a) : Count(a, a[k]) = Count(b, a[k])

Aggregates(df) == [k \in 1..Len(df) |-> Aggregate(df[k])]

(* The tables bin_donors_by_giving_level has returned in this run: the one *)
(* of every write_levels_csv call (the annual ones are its rows of one     *)
(* year), and df of process_annual_donations once the loop has turned.     *)
AnnualBinned == Len(writes) >= 2
EveryBinned(P(_)) ==
    /\ \A k \in 1..Len(writes) : P(writes[k].df)
    /\ AnnualBinned => P(annual_df)
SomeBinned(P(_)) ==
    \/ \E k \in 1..Len(writes) : P(writes[k].df)
    \/ AnnualBinned /\ P(annual_df)

(* The calls of write_levels_csv whose file was written to the end. *)
CompletedWrites ==
    IF raised.type = "OSError" THEN Len(writes) - 1 ELSE Len(writes)

LabelledByBand(df) ==
    \A k \in 1..Len(df) :
        df[k].AMT >= 0 =>
            /\ Cardinality(BandsOf(df[k].AMT)) = 1
            /\ Cardinality(TiersOf(df[k].LEVEL)) = 1
            /\ TiersOf(df[k].LEVEL) = BandsOf(df[k].AMT)

(* C1: every aggregate with amount >= 0 gets exactly one giving-level      *)
(* label, the one of the single band [lo, hi) that contains its amount,    *)
(* with the last band open above; none is left without a label.            *)
C1_OneLabelOfTheBand == EveryBinned(LabelledByBand)

(* An aggregate of 5000 has been binned as Publisher's Circle. *)
C1_Witness ==
    LET Has5000(df) == \E k \in 1..Len(df) :
                          df[k].AMT = 5000 /\ TiersOf(df[k].LEVEL) = {7}
    IN  SomeBinned(Has5000)

Ordered(df) ==
    \A k \in 1..(Len(df) - 1) :
        \/ Tier(df[k].LEVEL) > Tier(df[k + 1].LEVEL)
        \/ /\ Tier(df[k].LEVEL) = Tier(df[k + 1].LEVEL)
           /\ StrLeq(FinalToken(df[k].NAME), FinalToken(df[k + 1].NAME))

(* C2: the returned table is a permutation of the input rows, ordered by   *)
(* tier descending in band order and, within a tier, by the final token of *)
(* the name ascending.                                                     *)
C2_SortedPermutation ==
    /\ EveryBinned(Ordered)
    /\ Len(writes) >= 1 =>
          IsPermutation(Aggregates(get_donations_by_donor(donations_df)),
                        Aggregates(writes[1].df))
    /\ AnnualBinned =>
          IsPermutation(Aggregates(get_donations_by_year(donations_df)),
                        Aggregates(annual_df))

(* Three donors given in another order come out as: the higher tier first, *)
(* then two of one tier with their last names ascending.                   *)
C2_Witness ==
    /\ Len(writes) >= 1 /\ Len(writes[1].df) = 3
    /\ Aggregates(writes[1].df) # Aggregates(get_donations_by_donor(donations_df))
    /\ Tier(writes[1].df[1].LEVEL) > Tier(writes[1].df[2].LEVEL)
    /\ Tier(writes[1].df[2].LEVEL) = Tier(writes[1].df[3].LEVEL)
    /\ StrLess(FinalToken(writes[1].df[2].NAME), FinalToken(writes[1].df[3].NAME))

TierStarts(df, k) == k = 1 \/ df[k].LEVEL # df[k - 1].LEVEL
RowOfDonor(df, k) == k + Cardinality({j \in 1..k : TierStarts(df, j)})

FileOfTable(rows, df) ==
    /\ Len(rows) = Len(df) + Cardinality({j \in 1..Len(df) : TierStarts(df, j)})
    /\ \A k \in 1..Len(df) :
          /\ rows[RowOfDonor(df, k)] = <<[col |-> "NAME", val |-> df[k].NAME]>>
          /\ TierStarts(df, k) =>
                rows[RowOfDonor(df, k) - 1] =
                    <<[col |-> "LEVEL", val |-> df[k].LEVEL]>>
    /\ \A t \in 1..Len(GivingLevels) :
          Count(rows, <<[col |-> "LEVEL", val |-> GivingLevels[t].label]>>) =
              IF \E k \in 1..Len(df) : df[k].LEVEL = GivingLevels[t].label
              THEN 1 ELSE 0

(* C3: the file of a table holds, for every donor in table order, a row    *)
(* with the tier label exactly when the donor's tier differs from the      *)
(* previous donor's (or there is none), then a row with the donor's name.  *)
(* So every name is there once, and every tier with a donor has one header *)
(* row, before its names, and a tier without donors has none.              *)
C3_HeaderWhenTierChanges ==
    \A k \in 1..CompletedWrites :
        /\ writes[k].year \in DOMAIN files
        /\ FileOfTable(files[writes[k].year], writes[k].df)

(* A file of three donors in two tiers: header, two names, header, name. *)
C3_Witness ==
    \E k \in 1..CompletedWrites :
        /\ Len(writes[k].df) = 3
        /\ Len(files[writes[k].year]) = 5
        /\ files[writes[k].year][1][1].col = "LEVEL"
        /\ files[writes[k].year][4][1].col = "LEVEL"

YearsOf(df) == {df[k].YEAR : k \in 1..Len(df)}
Least(S) == CHOOSE y \in S : \A z \in S : y <= z
Greatest(S) == CHOOSE y \in S : \A z \in S : y >= z

(* C4: for a non-empty table of annual aggregates, one report per integer  *)
(* year from the least to the greatest YEAR, in ascending order, labelled  *)
(* str(year) and holding the aggregates of that year; a year without       *)
(* aggregates gets a report without rows; no other year gets one.          *)
C4_OneReportPerYearInRange ==
    LET annual == get_donations_by_year(donations_df)
        lo == Least(YearsOf(annual))
        hi == Greatest(YearsOf(annual))
        reports == SubSeq(writes, 2, Len(writes))
    IN  annual # <<>> =>
          /\ \A k \in 1..Len(reports) :
                LET OfYear(r) == r.YEAR = lo + k - 1
                IN  /\ lo + k - 1 <= hi
                    /\ reports[k].year = Str(lo + k - 1)
                    /\ \A j \in 1..Len(reports[k].df) : OfYear(reports[k].df[j])
                    /\ IsPermutation(SelectSeq(annual, OfYear),
                                     Aggregates(reports[k].df))
          /\ pc = "done" =>
                /\ Len(reports) = hi - lo + 1
                /\ \A y \in lo..hi : Str(y) \in DOMAIN files

(* Aggregates of 2014 and 2016 only: three reports, the one of 2015 empty. *)
C4_Witness ==
    /\ pc = "done" /\ Len(writes) = 4
    /\ writes[2].df # <<>> /\ writes[3].df = <<>> /\ writes[4].df # <<>>
    /\ files[Str(2015)] = <<>>

RECURSIVE Total(_, _)
Total(df, indices) ==
    IF indices = {} THEN 0
    ELSE LET k == CHOOSE k \in indices : TRUE
         IN  df[k].AMT + Total(df, indices \ {k})

AllRows(df) == 1..Len(df)

(* C6: get_donations_by_year gives one aggregate per distinct (year,       *)
(* account, name) of the joined donations, its amount the sum of the       *)
(* donations with that key; get_donations_by_donor one per (account,       *)
(* name), summed over all years, with year 'all-time'.  No donation is     *)
(* counted twice or left out.                                              *)
C6_OneAggregatePerKey ==
    /\ pc \in {"year", "done"} =>
          /\ \A k \in AllRows(donations_df) :
                Cardinality({j \in AllRows(annual_df) :
                    /\ annual_df[j].YEAR = donations_df[k].YEAR
                    /\ annual_df[j].ACCOUNT = donations_df[k].ACCOUNT
                    /\ annual_df[j].NAME = donations_df[k].NAME}) = 1
          /\ \A j \in AllRows(annual_df) :
                annual_df[j].AMT =
                    Total(donations_df, {k \in AllRows(donations_df) :
                        /\ donations_df[k].YEAR = annual_df[j].YEAR
                        /\ donations_df[k].ACCOUNT = annual_df[j].ACCOUNT
                        /\ donations_df[k].NAME = annual_df[j].NAME})
          /\ Total(annual_df, AllRows(annual_df)) =
                Total(donations_df, AllRows(donations_df))
    /\ Len(writes) >= 1 =>
          LET alltime == writes[1].df
          IN  /\ \A k \in AllRows(donations_df) :
                    Cardinality({j \in AllRows(alltime) :
                        /\ alltime[j].ACCOUNT = donations_df[k].ACCOUNT
                        /\ alltime[j].NAME = donations_df[k].NAME}) = 1
              /\ \A j \in AllRows(alltime) :
                    /\ alltime[j].YEAR = "all-time"
                    /\ alltime[j].AMT =
                          Total(donations_df, {k \in AllRows(donations_df) :
                              /\ donations_df[k].ACCOUNT = alltime[j].ACCOUNT
                              /\ donations_df[k].NAME = alltime[j].NAME})
              /\ Total(alltime, AllRows(alltime)) =
                    Total(donations_df, AllRows(donations_df))

(* One donor gave 30 twice in 2014 and 60 in 2016: 60 for each year and    *)
(* 120 all-time.                                                           *)
C6_Witness ==
    /\ pc = "done" /\ Len(donations_df) = 3
    /\ Len(writes[1].df) = 1 /\ writes[1].df[1].AMT = 120
    /\ Len(annual_df) = 2
    /\ annual_df[1].AMT = 60 /\ annual_df[2].AMT = 60
    /\ \E k \in 1..3 : donations_df[k].AMT = 60

HasDonor(k) ==
    \E j \in 1..Len(contacts_df) :
        contacts_df[j].ACCOUNT = opportunities_df[k].ACCOUNT
KeptDonations ==
    {k \in 1..Len(opportunities_df) :
        HasDonor(k) /\ opportunities_df[k].YEAR <= today}
NthKept(n) ==
    CHOOSE k \in KeptDonations :
        Cardinality({j \in KeptDonations : j <= k}) = n

(* C5: merge_and_slice returns exactly the donations whose account has a   *)
(* donor record and whose year is <= the current year, each once, with     *)
(* amount, year and account unchanged and the donor's name added; a        *)
(* donation of a later year or of an account without donor is dropped.     *)
C5_MatchedAndNotFuture ==
    pc = "all_time" =>
        /\ Len(donations_df) = Cardinality(KeptDonations)
        /\ \A n \in 1..Len(donations_df) :
              LET d == donations_df[n]
                  o == opportunities_df[NthKept(n)]
              IN  /\ d.AMT = o.AMT /\ d.YEAR = o.YEAR /\ d.ACCOUNT = o.ACCOUNT
                  /\ \E j \in 1..Len(contacts_df) :
                        /\ contacts_df[j].ACCOUNT = d.ACCOUNT
                        /\ contacts_df[j].NAME = d.NAME

(* Of three donations one is of the current year and kept, one is pledged  *)
(* for next year and one is of an account without donor.                   *)
C5_Witness ==
    /\ pc = "all_time"
    /\ Len(opportunities_df) = 3 /\ Len(donations_df) = 1
    /\ donations_df[1].YEAR = today
    /\ \E k \in 1..3 : HasDonor(k) /\ opportunities_df[k].YEAR > today
    /\ \E k \in 1..3 : ~HasDonor(k) /\ opportunities_df[k].YEAR <= today

RECURSIVE CommaList(_)
CommaList(names) ==
    IF Len(names) = 1 THEN names[1]
    ELSE names[1] \o <<44, 32>> \o CommaList(Tail(names))

SeriesOf(names) ==
    IF Len(names) = 0 THEN <<>>
    ELSE IF Len(names) = 1 THEN names[1]
    ELSE IF Len(names) = 2 THEN names[1] \o <<32, 97, 110, 100, 32>> \o names[2]
    ELSE CommaList(SubSeq(names, 1, Len(names) - 1))
         \o <<32, 97, 110, 100, 32>> \o names[Len(names)]

ContactNames(account) ==
    LET OfAccount(r) == r.AccountId = account
        records == SelectSeq(contacts.records, OfAccount)
    IN  [k \in 1..Len(records) |-> records[k].Name]

(* C7: clean_contacts_df gives one donor per distinct account id of the    *)
(* contacts, named by the series of the account's contact names in their   *)
(* order: nothing for no name, the name itself for one, 'A and B' for two, *)
(* 'A, B, ... and Z' for more (no comma before 'and').                     *)
C7_OneDonorPerAccount ==
    /\ series.called => series.out = SeriesOf(series.names)
    /\ pc = "all_time" =>
          /\ \A k \in 1..Len(contacts.records) :
                Cardinality({j \in 1..Len(contacts_df) :
                    contacts_df[j].ACCOUNT = contacts.records[k].AccountId}) = 1
          /\ \A j \in 1..Len(contacts_df) :
                /\ \E k \in 1..Len(contacts.records) :
                      contacts.records[k].AccountId = contacts_df[j].ACCOUNT
                /\ contacts_df[j].NAME =
                      SeriesOf(ContactNames(contacts_df[j].ACCOUNT))

(* Three contacts of one account become 'Al Zed, Bo Abe and Al Zed'. *)
C7_Witness ==
    /\ pc = "all_time" /\ Len(contacts.records) = 3
    /\ \E j \in 1..Len(contacts_df) :
          contacts_df[j].NAME =
              AlZed \o <<44, 32>> \o BoAbe \o <<32, 97, 110, 100, 32>> \o AlZed

(* C8: when sf.query_all raises the refused request with n entries,        *)
(* query_salesforce posts exactly n notifications, one per message in      *)
(* order, each 'ERROR: <message>. @channel' to the fixed channel, before   *)
(* the error leaves, and raises the original error; when the query         *)
(* succeeds nothing is posted and the response is returned.                *)
C8_NotifiesEachThenReraises ==
    /\ \A k \in 1..Len(slack_posts) :
          /\ k <= Len(caught.content)
          /\ slack_posts[k] =
                [channel |-> "ok_watch_salesforce",
                 text |-> "ERROR: " \o caught.content[k] \o ". @channel"]
    /\ (pc = "failed" /\ caught # NoError) =>
          /\ Len(slack_posts) = Len(caught.content)
          /\ raised = caught
          /\ Len(queries) \in {1, 2}
          /\ Len(queries) = 1 => opportunities.records = <<>>
          /\ contacts.records = <<>>
    /\ caught = NoError => slack_posts = <<>>
    /\ pc = "query_contacts" => opportunities.records = sf.opportunities
    /\ pc = "shape" => contacts.records = sf.contacts

(* C9: whenever sf.query_all has raised the refused request,               *)
(* query_salesforce ends by raising that same error, whatever happens to   *)
(* the posts.                                                              *)
C9_AlwaysReraised ==
    (pc = "failed" /\ caught # NoError) => raised = caught

(* C10: a complete run writes the all-time file and one file per year in   *)
(* range, each holding exactly the rows of its table whatever it held      *)
(* before; a second complete run on the same records in the same year      *)
(* writes the same files and leaves the directory as the first left it.    *)
C10_RerunIsIdempotent ==
    pc = "done" =>
        /\ writes[1].year = ALL_TIME_DONATIONS
        /\ \A k \in 2..Len(writes) :
              writes[k].year = Str(Least(YearsOf(donations_df)) + k - 2)
        /\ Len(writes) =
              Greatest(YearsOf(donations_df)) - Least(YearsOf(donations_df)) + 2
        /\ \A k \in 1..Len(writes) :
              /\ writes[k].year \in DOMAIN files
              /\ FileOfTable(files[writes[k].year], writes[k].df)
        /\ run > 1 =>
              /\ writes = prev.writes
              /\ files = prev.files

(* The second run is complete; the directory held a stale file of 2015 and *)
(* a file that is no report, and four reports were written.                *)
C10_Witness ==
    /\ pc = "done" /\ run = 2
    /\ Len(writes) = 4
    /\ Notes \in DOMAIN files /\ files[Notes] = StaleRows
    /\ files[Str(2015)] = <<>>
    /\ files[ALL_TIME_DONATIONS] # <<>>

(* The positions of main in the order of its statements: each pair is a    *)
(* step from one statement to the next (the loops return to their start).  *)
FixedOrder ==
    {<<"connect", "query_opportunities">>,
     <<"query_opportunities", "query_contacts">>,
     <<"query_opportunities", "notify">>,
     <<"query_contacts", "shape">>,
     <<"query_contacts", "notify">>,
     <<"notify", "notify">>,
     <<"shape", "all_time">>,
     <<"all_time", "annual">>,
     <<"annual", "year">>,
     <<"year", "year">>,
     <<"year", "done">>}

(* The errors the step at a position can end the run with. *)
ErrorsOf(at) ==
    IF at = "connect" THEN {"SalesforceAuthenticationFailed"}
    ELSE IF at \in {"query_opportunities", "query_contacts"}
    THEN {"SalesforceError"}
    ELSE IF at = "notify" THEN {"SalesforceRefusedRequest", "SlackError"}
    ELSE IF at = "shape" THEN {"KeyError", "ValueError"}
    ELSE IF at = "annual" THEN {"TypeError"}
    ELSE {"OSError"}

BeforeReports ==
    {"connect", "query_opportunities", "query_contacts", "notify", "shape"}

(* A step of a run, from one position of main to the next or to its end. *)
StepOfRun ==
    \* the order is fixed, and nothing follows a failure
    /\ pc # "failed"
    /\ <<pc, pc'>> \in FixedOrder \/ pc' = "failed"
    \* the first failure ends the run with the error of its step
    /\ raised = NoError
    /\ IF pc' = "failed" THEN raised'.type \in ErrorsOf(pc)
                         ELSE raised' = NoError
    \* the queries: donations, then contacts, the second only after the
    \* first has returned its response
    /\ queries' # queries =>
          \/ /\ pc = "query_opportunities"
             /\ queries = <<>> /\ queries' = <<donors_opportunities_query>>
          \/ /\ pc = "query_contacts"
             /\ caught = NoError
             /\ opportunities.records = sf.opportunities
             /\ queries' = <<donors_opportunities_query, donors_contacts_query>>
    /\ pc' = "shape" => contacts'.records = sf.contacts
    \* shaping and merging, then the join and the filter
    /\ pc' = "all_time" =>
          /\ opportunities_df' =
                clean_opportunities_df(
                    create_opportunities_df(opportunities)).value
          /\ contacts_df' =
                clean_contacts_df(create_contacts_df(contacts)).value
          /\ donations_df' =
                merge_and_slice(opportunities_df', contacts_df', today)
    \* no report before the join has succeeded
    /\ pc \in BeforeReports \cup {"annual"} =>
          /\ files' = files /\ data_dir' = data_dir /\ writes' = writes
          /\ pc \in BeforeReports => writes = <<>>
    \* a write: the all-time report first, then the years ascending; only
    \* the file of this report changes, and the earlier ones stay written
    /\ pc \in {"all_time", "year"} =>
          /\ Len(writes') = Len(writes) + 1
          /\ SubSeq(writes', 1, Len(writes)) = writes
          /\ LET label == writes'[Len(writes')].year
             IN  /\ pc = "all_time" =>
                       writes = <<>> /\ label = ALL_TIME_DONATIONS
                 /\ pc = "year" =>
                       /\ label = Str(year)
                       /\ writes[Len(writes)].year \in
                             {ALL_TIME_DONATIONS, Str(year - 1)}
                 /\ DOMAIN files' \subseteq DOMAIN files \cup {label}
                 /\ \A f \in DOMAIN files :
                       f # label => f \in DOMAIN files' /\ files'[f] = files[f]
                 /\ \A k \in 1..Len(writes) :
                       /\ writes[k].year # label
                       /\ FileOfTable(files'[writes[k].year], writes[k].df)
                 /\ pc' # "failed" =>
                       /\ label \in DOMAIN files'
                       /\ FileOfTable(files'[label], writes'[Len(writes')].df)

(* C11: a run of main takes its steps in one fixed order (donation query,  *)
(* contact query, shaping, merging, join and filter, the all-time report,  *)
(* the annual reports in ascending year order); the first step that fails  *)
(* ends the run with its error and no step follows.  So the contact query  *)
(* is issued only after the donation query has returned, no file changes   *)
(* before the join has succeeded, and a write that fails leaves the        *)
(* reports written earlier in the run as they were written.                *)
C11_FixedOrderFailFast ==
    [][(pc = "done" /\ pc' = "connect" /\ files' = files) \/ StepOfRun]_vars

(* The third report of a run could not be opened: the all-time report and  *)
(* the report of the first year are written, the third is not there, and   *)
(* the run has ended with the error of the write.                          *)
C11_Witness ==
    /\ pc = "failed" /\ raised.type = "OSError"
    /\ queries = <<donors_opportunities_query, donors_contacts_query>>
    /\ Len(writes) = 3
    /\ files[writes[1].year] # <<>> /\ files[writes[2].year] # <<>>
    /\ writes[3].year \notin DOMAIN files

(* Both queries have returned their responses in this run. *)
BothQueriesSucceeded ==
    /\ queries = <<donors_opportunities_query, donors_contacts_query>>
    /\ caught = NoError
    /\ raised.type # "SalesforceError"

(* Every returned amount is a number and every close date is a date. *)
AmountsNumericDatesValid ==
    \A k \in 1..Len(sf.opportunities) :
        /\ to_numeric_astype_int(sf.opportunities[k].Amount).raised = NoError
        /\ to_datetime_year(sf.opportunities[k].CloseDate).raised = NoError

NoWriteFailed == raised.type # "OSError"

RunEnded == pc \in {"done", "failed"}

(* C12: a run in which both queries succeed, every amount is numeric,      *)
(* every close date is valid and no write fails ends successfully with the *)
(* all-time report and every annual report written, whatever the two       *)
(* responses hold; when no donation is left after the join and the filter, *)
(* the all-time report has no rows and no annual report is written.        *)
C12_CleanResponsesSucceed ==
    (RunEnded /\ BothQueriesSucceeded /\ AmountsNumericDatesValid
        /\ NoWriteFailed) =>
        /\ pc = "done"
        /\ Len(writes) >= 1
        /\ writes[1].year = ALL_TIME_DONATIONS
        /\ ALL_TIME_DONATIONS \in DOMAIN files
        /\ donations_df = <<>> =>
              /\ Len(writes) = 1
              /\ files[ALL_TIME_DONATIONS] = <<>>
        /\ donations_df # <<>> =>
              Len(writes) = Greatest(YearsOf(donations_df))
                              - Least(YearsOf(donations_df)) + 2

=============================================================================
